---------------------------- MODULE Spec2Model ----------------------------
(***************************************************************************)
(* Model of nb/dashboard_app.py: load_data() and the run of main() that    *)
(* filters the loaded table and computes the indicators, the time series   *)
(* and the market ranking.                                                 *)
(*                                                                         *)
(* Text is a sequence of one-character strings, so that strip, upper,      *)
(* lower and replace are computed character by character.  Prices are      *)
(* integers and every mean is the exact rational sum / count; two means    *)
(* are compared by cross multiplication.  A date is a day number.          *)
(***************************************************************************)
EXTENDS Integers, Sequences, FiniteSets, TLC

VARIABLES
    exists,        \* the indices of possible_paths for which os.path.exists holds
    csv,           \* the content of the file that is read: header and raw rows
    pc,            \* position of the run inside main()
    df,            \* main: df (None before load_data returned, or when it returned None)
    path,          \* main: path
    signal,        \* the message main showed before st.stop(), "none" when it showed none
    start_date,    \* the slider's value
    end_date,
    producto_sel,  \* the selectbox's value
    mercados_disponibles, \* the multiselect's options
    mercados_sel,  \* the multiselect's value (a set of market names)
    df_producto,   \* the filtered view (None until the sidebar block ran)
    kpi,           \* the indicators of section 3
    pivot,         \* the time series of tab 1
    rank           \* the ranking of tab 2 with its two slices

vars == <<exists, csv, pc, df, path, signal, start_date, end_date, producto_sel,
          mercados_disponibles, mercados_sel, df_producto, kpi, pivot, rank>>

None == [k |-> "none"]

(***************************************************************************)
(* Characters and text                                                     *)
(***************************************************************************)
Lowers == <<"a","b","c","d","e","f","g","h","i","j","k","l","m",
            "n","o","p","q","r","s","t","u","v","w","x","y","z">>
Uppers == <<"A","B","C","D","E","F","G","H","I","J","K","L","M",
            "N","O","P","Q","R","S","T","U","V","W","X","Y","Z">>

\* The characters of the model in code point order (what Python's sorted() uses).
CharOrder == <<"\t", " ", "*">> \o Uppers \o <<"_">> \o Lowers

Whitespace == {"\t", " "}

CodePoint == [c \in {CharOrder[i] : i \in 1..Len(CharOrder)} |->
                 CHOOSE i \in 1..Len(CharOrder) : CharOrder[i] = c]

UpperMap == [c \in {Lowers[i] : i \in 1..26} |-> Uppers[CHOOSE i \in 1..26 : Lowers[i] = c]]
LowerMap == [c \in {Uppers[i] : i \in 1..26} |-> Lowers[CHOOSE i \in 1..26 : Uppers[i] = c]]

\* str.upper() and str.lower(), one character
CharUpper(c) == IF c \in DOMAIN UpperMap THEN UpperMap[c] ELSE c
CharLower(c) == IF c \in DOMAIN LowerMap THEN LowerMap[c] ELSE c

StrUpper(s) == [i \in 1..Len(s) |-> CharUpper(s[i])]
StrLower(s) == [i \in 1..Len(s) |-> CharLower(s[i])]

\* str.strip(): drop the leading and the trailing whitespace
RECURSIVE LStrip(_)
LStrip(s) == IF s # <<>> /\ Head(s) \in Whitespace THEN LStrip(Tail(s)) ELSE s
RECURSIVE RStrip(_)
RStrip(s) == IF s # <<>> /\ s[Len(s)] \in Whitespace
             THEN RStrip(SubSeq(s, 1, Len(s) - 1)) ELSE s
StrStrip(s) == RStrip(LStrip(s))

\* str.replace(old, new) for a one-character old; new is a text (possibly empty)
RECURSIVE StrReplace(_, _, _)
StrReplace(s, old, new) ==
    IF s = <<>> THEN <<>>
    ELSE (IF Head(s) = old THEN new ELSE <<Head(s)>>) \o StrReplace(Tail(s), old, new)

\* Python's < on str: lexicographic by code point
RECURSIVE StrLess(_, _)
StrLess(a, b) ==
    IF b = <<>> THEN FALSE
    ELSE IF a = <<>> THEN TRUE
    ELSE IF Head(a) = Head(b) THEN StrLess(Tail(a), Tail(b))
    ELSE CodePoint[Head(a)] < CodePoint[Head(b)]

\* sorted(S) of a set of texts
RECURSIVE SortedTexts(_)
SortedTexts(S) ==
    IF S = {} THEN <<>>
    ELSE LET m == CHOOSE x \in S : \A y \in S \ {x} : StrLess(x, y)
         IN  <<m>> \o SortedTexts(S \ {m})

Range(s) == {s[i] : i \in 1..Len(s)}

(***************************************************************************)
(* Cells.  A file cell is text: "datetxt" is text that parses to the day   *)
(* v, "numtxt" text that parses to the number v, "badtxt" text that parses *)
(* to neither, "str" any other text, NA an empty cell.  After parsing, a   *)
(* Timestamp is "ts" and a float is "num".                                 *)
(***************************************************************************)
NA == [k |-> "na", v |-> 0]
DateTxt(d) == [k |-> "datetxt", v |-> d]
NumTxt(n) == [k |-> "numtxt", v |-> n]
BadTxt == [k |-> "badtxt", v |-> 0]
Str(s) == [k |-> "str", v |-> s]
Ts(d) == [k |-> "ts", v |-> d]
Num(n) == [k |-> "num", v |-> n]

IsNull(cell) == cell.k = "na"

(***************************************************************************)
(* Column names                                                            *)
(***************************************************************************)
FECHA == <<"f","e","c","h","a">>
GRUPO == <<"g","r","u","p","o">>
PRODUCTO == <<"p","r","o","d","u","c","t","o">>
CODIGO == <<"c","o","d","i","g","o","_","c","p","c","_","a","c">>
MERCADO == <<"m","e","r","c","a","d","o">>
PRECIO == <<"p","r","e","c","i","o","_","p","r","o","m","e","d","i","o","_",
            "p","o","r","_","k","i","l","o","g","r","a","m","o">>

HasCol(columns, name) == \E i \in 1..Len(columns) : columns[i] = name
ColPos(columns, name) == CHOOSE i \in 1..Len(columns) : columns[i] = name

\* frame[name] of a row
Get(frame, row, name) == row.c[ColPos(frame.columns, name)]

(***************************************************************************)
(* load_data                                                               *)
(***************************************************************************)
possible_paths == <<"data/processed/sipsa_master.csv",
                    "/content/data/processed/sipsa_master.csv">>

\* the for loop of load_data: the first path that exists, 0 when none does
FirstExisting(ex) ==
    IF \E i \in 1..Len(possible_paths) : i \in ex
    THEN CHOOSE i \in 1..Len(possible_paths) :
            i \in ex /\ \A j \in 1..(i - 1) : j \notin ex
    ELSE 0

\* parse_dates=["fecha"]: the column becomes datetime when every non-empty cell
\* parses, and is returned unaltered (text) when one does not
ParseDates(cells) ==
    IF \E i \in 1..Len(cells) : cells[i].k = "badtxt"
    THEN cells
    ELSE [i \in 1..Len(cells) |->
            IF cells[i].k = "datetxt" THEN Ts(cells[i].v) ELSE cells[i]]

\* pd.read_csv(path, parse_dates=["fecha"]): the column is looked up under the
\* name the file gives it; a file without it raises ValueError
ReadCsvRaises(file) == ~HasCol(file.header, FECHA)

ReadCsv(file) ==
    LET p == ColPos(file.header, FECHA)
        dates == ParseDates([i \in 1..Len(file.rows) |-> file.rows[i][p]])
    IN  [columns |-> file.header,
         rows |-> [i \in 1..Len(file.rows) |->
                     [idx |-> i - 1,
                      c |-> [file.rows[i] EXCEPT ![p] = dates[i]]]]]

\* df.columns.str.strip().str.lower().str.replace(" ", "_").str.replace("*", "")
NormalizeColumnName(name) ==
    StrReplace(StrReplace(StrLower(StrStrip(name)), " ", <<"_">>), "*", <<>>)

NormalizeColumns(frame) ==
    [frame EXCEPT !.columns = [i \in 1..Len(frame.columns) |->
                                  NormalizeColumnName(frame.columns[i])]]

\* .astype(str): a missing value becomes the text "nan"
AsTypeStr(cell) == IF cell.k = "str" THEN cell.v ELSE <<"n","a","n">>

\* (variant: the same without .str.strip())
NormalizeTextNoStrip(cell) == Str(StrUpper(AsTypeStr(cell)))
\* df[col].astype(str).str.strip().str.upper()
NormalizeText(cell) == Str(StrUpper(StrStrip(AsTypeStr(cell))))

MapCol(frame, name, F(_)) ==
    IF HasCol(frame.columns, name)
    THEN LET p == ColPos(frame.columns, name)
         IN  [frame EXCEPT !.rows = [i \in 1..Len(frame.rows) |->
                [frame.rows[i] EXCEPT !.c[p] = F(frame.rows[i].c[p])]]]
    ELSE frame

NormalizeTextCols(frame) ==
    MapCol(MapCol(MapCol(frame, GRUPO, NormalizeText), PRODUCTO, NormalizeText),
           MERCADO, NormalizeText)

\* pd.to_numeric(..., errors="coerce"): what does not parse becomes NaN
ToNumeric(cell) == IF cell.k \in {"numtxt", "num"} THEN Num(cell.v) ELSE NA

CoercePrice(frame) == MapCol(frame, PRECIO, ToNumeric)

\* df.dropna(subset=["fecha", "precio_promedio_por_kilogramo"])
DropNa(frame) ==
    IF HasCol(frame.columns, FECHA) /\ HasCol(frame.columns, PRECIO)
    THEN LET keep(row) == ~IsNull(Get(frame, row, FECHA))
                          /\ ~IsNull(Get(frame, row, PRECIO))
         IN  [frame EXCEPT !.rows = SelectSeq(frame.rows, keep)]
    ELSE frame

\* load_data(): [raised, df, path]
LoadData(ex, file) ==
    LET i == FirstExisting(ex)
    IN  IF i = 0 THEN [raised |-> FALSE, df |-> None, path |-> None]
        ELSE IF ReadCsvRaises(file) THEN [raised |-> TRUE, df |-> None, path |-> None]
        ELSE [raised |-> FALSE,
              df |-> DropNa(CoercePrice(NormalizeTextCols(NormalizeColumns(ReadCsv(file))))),
              path |-> possible_paths[i]]

(***************************************************************************)
(* Numbers.  A float is the exact rational n/d (d > 0); NaN is what the    *)
(* mean of nothing gives.                                                  *)
(***************************************************************************)
MkRat(n, d) == [k |-> "rat", n |-> n, d |-> d]
NaN == [k |-> "nan", n |-> 0, d |-> 0]

IsRat(a) == a.k = "rat"
\* a < b and a > 0 on floats: every comparison with NaN is False
RatLess(a, b) == IsRat(a) /\ IsRat(b) /\ a.n * b.d < b.n * a.d
RatPositive(a) == IsRat(a) /\ a.n > 0

RECURSIVE SumSeq(_)
SumSeq(s) == IF s = <<>> THEN 0 ELSE Head(s) + SumSeq(Tail(s))

\* Series.mean() of a sequence of numbers
Mean(s) == IF s = <<>> THEN NaN ELSE MkRat(SumSeq(s), Len(s))

\* (precio_final / precio_inicial - 1) * 100 for precio_inicial > 0
PctChange(final, initial) ==
    MkRat(100 * (final.n * initial.d - final.d * initial.n), final.d * initial.n)

(***************************************************************************)
(* sort_values.  The code passes no kind, so the sort is pandas' default   *)
(* quicksort, which is not stable: every order of the items that is sorted *)
(* by key is a possible result.  An item is a record with a field key.     *)
(***************************************************************************)
KeyBefore(a, b, ascending) == IF ascending THEN RatLess(a.key, b.key) ELSE RatLess(b.key, a.key)

RECURSIVE SortOutcomesOf(_, _, _)
SortOutcomesOf(items, S, ascending) ==
    IF S = {} THEN {<<>>}
    ELSE UNION { { <<items[i]>> \o t : t \in SortOutcomesOf(items, S \ {i}, ascending) } :
                 i \in { i \in S : \A j \in S : ~KeyBefore(items[j], items[i], ascending) } }

SortValues(items, ascending) == SortOutcomesOf(items, DOMAIN items, ascending)

(***************************************************************************)
(* main: the sidebar block (lines 93-144)                                  *)
(***************************************************************************)
FechaOf(frame, row) == Get(frame, row, FECHA).v
PrecioOf(frame, row) == Get(frame, row, PRECIO).v
ProductoOf(frame, row) == Get(frame, row, PRODUCTO).v
MercadoOf(frame, row) == Get(frame, row, MERCADO).v

SetMin(S) == CHOOSE x \in S : \A y \in S : x <= y
SetMax(S) == CHOOSE x \in S : \A y \in S : y <= x

Fechas(frame) == {FechaOf(frame, frame.rows[i]) : i \in 1..Len(frame.rows)}

\* min_date.to_pydatetime() raises AttributeError when the column holds text
FechaIsText(frame) ==
    \E i \in 1..Len(frame.rows) : Get(frame, frame.rows[i], FECHA).k # "ts"

Filter(frame, keep(_)) == [frame EXCEPT !.rows = SelectSeq(frame.rows, keep)]

\* mask_fecha: (df["fecha"] >= start_date) & (df["fecha"] <= end_date)
MaskFecha(frame, s, e) ==
    LET keep(row) == FechaOf(frame, row) >= s /\ FechaOf(frame, row) <= e
    IN  Filter(frame, keep)

\* sorted(df_periodo["producto"].dropna().unique())
Productos(frame) ==
    SortedTexts({ProductoOf(frame, frame.rows[i]) : i \in 1..Len(frame.rows)})

\* df_periodo[df_periodo["producto"] == producto_sel]
FilterProducto(frame, sel) ==
    LET keep(row) == Str(ProductoOf(frame, row)) = sel
    IN  Filter(frame, keep)

\* sorted(df_producto["mercado"].dropna().unique())
MercadosDisponibles(frame) ==
    SortedTexts({MercadoOf(frame, frame.rows[i]) : i \in 1..Len(frame.rows)})

DefaultMax == 5

MercadosDefault(disponibles) ==
    IF Len(disponibles) <= DefaultMax THEN disponibles
    ELSE SubSeq(disponibles, 1, DefaultMax)

\* (variant: the isin filter without the `if mercados_sel` test)
FilterMercadosAlways(frame, sel) ==
    LET keep(row) == MercadoOf(frame, row) \in sel
    IN  Filter(frame, keep)
\* if mercados_sel: df_producto[df_producto["mercado"].isin(mercados_sel)]
FilterMercados(frame, sel) ==
    IF sel # {}
    THEN LET keep(row) == MercadoOf(frame, row) \in sel
         IN  Filter(frame, keep)
    ELSE frame

(***************************************************************************)
(* What the widgets can return.  The slider returns a range inside         *)
(* [min_date, max_date]; the model lets the user move its two ends by at   *)
(* most MaxTrim days in total.  The selectbox returns one of its options   *)
(* (None when it has none).  The multiselect returns a subset of its       *)
(* options: the model takes the full set, the default and every subset of  *)
(* at most MaxSelected markets.                                            *)
(***************************************************************************)
MaxTrim == 2
MaxSelected == 1

SliderChoices(lo, hi) ==
    { r \in (lo..hi) \X (lo..hi) :
        r[1] <= r[2] /\ (r[1] - lo) + (hi - r[2]) <= MaxTrim }

SelectboxChoices(options) == IF options = <<>> THEN {None} ELSE {Str(o) : o \in Range(options)}

RECURSIVE SubsetsUpTo(_, _)
SubsetsUpTo(S, n) ==
    IF n = 0 \/ S = {} THEN {{}}
    ELSE LET x == CHOOSE x \in S : TRUE
         IN  SubsetsUpTo(S \ {x}, n) \cup {T \cup {x} : T \in SubsetsUpTo(S \ {x}, n - 1)}

MultiselectChoices(options) ==
    SubsetsUpTo(Range(options), MaxSelected)
        \cup {Range(options), Range(MercadosDefault(options))}

(***************************************************************************)
(* main: indicators, time series and ranking (lines 159-265)               *)
(***************************************************************************)
Precios(rows, frame) == [i \in 1..Len(rows) |-> PrecioOf(frame, rows[i])]

\* df_producto.sort_values("fecha")
ByFecha(frame) ==
    [i \in 1..Len(frame.rows) |->
        [val |-> frame.rows[i], key |-> MkRat(FechaOf(frame, frame.rows[i]), 1)]]

\* the mean price of the rows of one date
PrecioEn(frame, fecha) ==
    Mean(Precios(SelectSeq(frame.rows, LAMBDA row : FechaOf(frame, row) = fecha), frame))

\* precio_inicial: the mean over the rows of the first date
PrecioInicial(sorted) == PrecioEn(sorted, SetMin(Fechas(sorted)))

\* (variant: the price of the last row instead of the mean of the last date)
PrecioFinalLastRow(sorted) ==
    MkRat(PrecioOf(sorted, sorted.rows[Len(sorted.rows)]), 1)
\* precio_final: the mean over the rows of the last date
PrecioFinal(sorted) == PrecioEn(sorted, SetMax(Fechas(sorted)))

\* (variant: the guard precio_inicial != 0)
VariacionPctNonZero(precio_final, precio_inicial) ==
    IF IsRat(precio_inicial) /\ precio_inicial.n # 0
    THEN PctChange(precio_final, precio_inicial) ELSE None
\* (precio_final / precio_inicial - 1) * 100 if precio_inicial > 0 else None
VariacionPct(precio_final, precio_inicial) ==
    IF RatPositive(precio_inicial) THEN PctChange(precio_final, precio_inicial) ELSE None

Kpis(sorted) ==
    LET primer_fecha == SetMin(Fechas(sorted))
        ultima_fecha == SetMax(Fechas(sorted))
        precio_inicial == PrecioInicial(sorted)
        precio_final == PrecioFinal(sorted)
    IN  [primer_fecha |-> primer_fecha,
         ultima_fecha |-> ultima_fecha,
         precio_inicial |-> precio_inicial,
         precio_final |-> precio_final,
         variacion_pct |-> VariacionPct(precio_final, precio_inicial),
         precio_prom_periodo |-> Mean(Precios(sorted.rows, sorted))]

\* groupby(["fecha", "mercado"]).mean().reset_index().pivot(...): a cell for
\* every (fecha, mercado) pair that has rows, none for the others
Pivot(sorted) ==
    LET pairs == {<<FechaOf(sorted, sorted.rows[i]), MercadoOf(sorted, sorted.rows[i])>> :
                    i \in 1..Len(sorted.rows)}
    IN  [q \in pairs |->
            Mean(Precios(SelectSeq(sorted.rows,
                    LAMBDA row : FechaOf(sorted, row) = q[1] /\ MercadoOf(sorted, row) = q[2]),
                 sorted))]

\* groupby("mercado")[precio].mean(): one entry per market, in the order of the
\* sorted group keys
GroupByMercado(sorted) ==
    LET keys == MercadosDisponibles(sorted)
    IN  [i \in 1..Len(keys) |->
            [val |-> keys[i],
             key |-> Mean(Precios(SelectSeq(sorted.rows,
                            LAMBDA row : MercadoOf(sorted, row) = keys[i]), sorted))]]

\* (variant: the sort without ascending=False)
RankingMercadosAscending(grouped) == SortValues(grouped, TRUE)
\* .sort_values(ascending=False) of the grouped means
RankingMercados(grouped) == SortValues(grouped, FALSE)

TopNLimit == 10

\* (variant: top_n without the cap)
TopNUncapped(ranking) == Len(ranking)
\* top_n = 10 if len(ranking_mercados) > 10 else len(ranking_mercados)
TopN(ranking) == IF Len(ranking) > TopNLimit THEN TopNLimit ELSE Len(ranking)

\* Series.head(n) and Series.tail(n)
SeqHead(s, n) == SubSeq(s, 1, n)
SeqTail(s, n) == SubSeq(s, Len(s) - n + 1, Len(s))

\* ranking_mercados.tail(top_n).sort_values(ascending=True)
Baratos(ranking, n) == SortValues(SeqTail(ranking, n), TRUE)

(***************************************************************************)
(* The run of main()                                                       *)
(***************************************************************************)
\* (variant: the guard without `or df.empty`)
NotLoadedOnly(d) == d = None
\* if df is None or df.empty
NothingLoaded(d) == d = None \/ d.rows = <<>>

\* if df_producto.empty
ViewEmpty(view) == view.rows = <<>>

\* line 83: df, path = load_data()
CallLoadData ==
    /\ pc = "start"
    /\ LET r == LoadData(exists, csv)
       IN  IF r.raised
           THEN /\ pc' = "raised"
                /\ UNCHANGED <<df, path>>
           ELSE /\ pc' = "loaded"
                /\ df' = r.df
                /\ path' = r.path
    /\ UNCHANGED <<exists, csv, signal, start_date, end_date, producto_sel,
                   mercados_disponibles, mercados_sel, df_producto, kpi, pivot, rank>>

\* lines 85-91: st.error(...) and st.stop() when nothing was loaded
CheckLoaded ==
    /\ pc = "loaded"
    /\ IF NothingLoaded(df)
       THEN /\ signal' = "error_file_not_found"
            /\ pc' = "stopped"
       ELSE /\ pc' = "sidebar"
            /\ UNCHANGED signal
    /\ UNCHANGED <<exists, csv, df, path, start_date, end_date, producto_sel,
                   mercados_disponibles, mercados_sel, df_producto, kpi, pivot, rank>>

\* lines 93-144: the widgets and the three filters.  A text date column makes
\* min_date.to_pydatetime() raise; so would a df without rows, which the guard of
\* line 85 keeps away from here.
Sidebar ==
    /\ pc = "sidebar"
    /\ IF df = None \/ df.rows = <<>> \/ FechaIsText(df)
       THEN /\ pc' = "raised"
            /\ UNCHANGED <<start_date, end_date, producto_sel, mercados_disponibles,
                           mercados_sel, df_producto>>
       ELSE \E r \in SliderChoices(SetMin(Fechas(df)), SetMax(Fechas(df))) :
              LET df_periodo == MaskFecha(df, r[1], r[2]) IN
              \E p \in SelectboxChoices(Productos(df_periodo)) :
                LET by_producto == FilterProducto(df_periodo, p)
                    disponibles == MercadosDisponibles(by_producto) IN
                \E ms \in MultiselectChoices(disponibles) :
                    /\ start_date' = r[1]
                    /\ end_date' = r[2]
                    /\ producto_sel' = p
                    /\ mercados_disponibles' = disponibles
                    /\ mercados_sel' = ms
                    /\ df_producto' = FilterMercados(by_producto, ms)
                    /\ pc' = "filtered"
    /\ UNCHANGED <<exists, csv, df, path, signal, kpi, pivot, rank>>

\* lines 147-152: st.warning(...) and st.stop() when the view is empty
CheckView ==
    /\ pc = "filtered"
    /\ IF ViewEmpty(df_producto)
       THEN /\ signal' = "warning_no_data"
            /\ pc' = "stopped"
       ELSE /\ pc' = "render"
            /\ UNCHANGED signal
    /\ UNCHANGED <<exists, csv, df, path, start_date, end_date, producto_sel,
                   mercados_disponibles, mercados_sel, df_producto, kpi, pivot, rank>>

\* lines 159-294: the indicators, the time series, the ranking and its slices
Render ==
    /\ pc = "render"
    /\ \E s \in SortValues(ByFecha(df_producto), TRUE) :
         LET df_producto_sorted ==
                [df_producto EXCEPT !.rows = [i \in 1..Len(s) |-> s[i].val]]
             grouped == GroupByMercado(df_producto_sorted) IN
         \E ranking_mercados \in RankingMercados(grouped) :
           LET top_n == TopN(ranking_mercados) IN
           \E baratos \in Baratos(ranking_mercados, top_n) :
               /\ kpi' = Kpis(df_producto_sorted)
               /\ pivot' = Pivot(df_producto_sorted)
               /\ rank' = [grouped |-> grouped,
                           ranking_mercados |-> ranking_mercados,
                           top_n |-> top_n,
                           caros |-> SeqHead(ranking_mercados, top_n),
                           baratos |-> baratos]
    /\ pc' = "done"
    /\ UNCHANGED <<exists, csv, df, path, signal, start_date, end_date, producto_sel,
                   mercados_disponibles, mercados_sel, df_producto>>

Next == CallLoadData \/ CheckLoaded \/ Sidebar \/ CheckView \/ Render

(***************************************************************************)
(* Initial states: the files the run may find.                             *)
(***************************************************************************)
CanonHeader == <<FECHA, GRUPO, PRODUCTO, CODIGO, MERCADO, PRECIO>>

MkRow(fecha, grupo, producto, mercado, precio) ==
    <<fecha, grupo, producto, Str(<<"c">>), mercado, precio>>

NoFile == [header |-> CanonHeader, rows |-> <<>>]

\* the sequences over 1..n of length at most len whose entries do not decrease:
\* the rows of a table are drawn from a list of rows, in the order of the list
RECURSIVE Picks(_, _)
Picks(n, len) ==
    IF len = 0 THEN {<<>>}
    ELSE LET shorter == Picks(n, len - 1)
         IN  shorter \cup
             {Append(t, i) : t \in {u \in shorter : Len(u) = len - 1}, i \in 1..n}

Nondecreasing(t) == \A i \in 1..(Len(t) - 1) : t[i] <= t[i + 1]

Tables(header, options, len) ==
    {[header |-> header, rows |-> [i \in 1..Len(t) |-> options[t[i]]]] :
        t \in {u \in Picks(Len(options), len) : Nondecreasing(u)}}

\* a set as a list, in some fixed order
RECURSIVE AsList(_)
AsList(S) == IF S = {} THEN <<>>
             ELSE LET x == CHOOSE x \in S : TRUE IN <<x>> \o AsList(S \ {x})

InitRest ==
    /\ pc = "start"
    /\ df = None
    /\ path = None
    /\ signal = "none"
    /\ start_date = None
    /\ end_date = None
    /\ producto_sel = None
    /\ mercados_disponibles = <<>>
    /\ mercados_sel = {}
    /\ df_producto = None
    /\ kpi = None
    /\ pivot = None
    /\ rank = None

(* The pipeline family: canonical headers, up to MaxRows rows of two       *)
(* products, two markets and three days; the first market has a negative,  *)
(* a zero and a positive price.                                            *)
MaxRows == 3

PipelineRows ==
    LET ax == {MkRow(DateTxt(d), Str(<<"g">>), Str(<<"a">>), Str(<<"x">>), NumTxt(v)) :
                 d \in {1, 2, 3}, v \in {-1, 0, 2}}
        ay == {MkRow(DateTxt(d), Str(<<"g">>), Str(<<"a">>), Str(<<"y">>), NumTxt(2)) :
                 d \in {1, 2, 3}}
        b == {MkRow(DateTxt(2), Str(<<"g">>), Str(<<"b">>), Str(<<"x">>), NumTxt(2))}
    IN  AsList(ax \cup ay \cup b)

Init ==
    /\ \/ exists = {} /\ csv = NoFile
       \/ exists = {1} /\ csv \in Tables(CanonHeader, PipelineRows, MaxRows)
    /\ InitRest

Spec == Init /\ [][Next]_vars

(* The loading family: up to MaxRowsLoad rows, each a plain row with one    *)
(* cell changed (an empty or unparseable date or price, a text with case,  *)
(* whitespace or '*'), under a canonical or an irregular header, at either *)
(* path.                                                                   *)
MaxRowsLoad == 2

LoadHeaders ==
    { CanonHeader,
      <<<<"F","e","c","h","a">>, GRUPO, PRODUCTO, CODIGO, MERCADO, PRECIO>>,
      <<<<"f","e","c","h","a"," ">>, GRUPO, PRODUCTO, CODIGO, MERCADO, PRECIO>>,
      <<FECHA,
        <<" ","G","r","u","p","o">>,
        <<"P","R","O","D","U","C","T","O","*">>,
        <<"c","o","d","i","g","o"," ","c","p","c"," ","a","c">>,
        <<"M","e","r","c","a","d","o","\t">>,
        <<"P","r","e","c","i","o"," ","p","r","o","m","e","d","i","o"," ",
          "p","o","r"," ","k","i","l","o","g","r","a","m","o","*">>>> }

LoadRows ==
    LET g == Str(<<"g">>)
        a == Str(<<"a">>)
        x == Str(<<"x">>)
        d == DateTxt(1)
        v == NumTxt(1)
    IN  AsList(
          {MkRow(f, g, a, x, v) : f \in {d, DateTxt(2), NA, BadTxt}}
          \cup {MkRow(d, g, a, x, n) : n \in {NumTxt(0), NA, BadTxt}}
          \cup {MkRow(d, g, Str(t), x, v) :
                  t \in {<<"A">>, <<" ","a">>, <<"a","\t">>, <<"a","*">>,
                         <<"*","a"," ">>}}
          \cup {MkRow(d, g, NA, x, v)}
          \cup {MkRow(d, g, a, Str(t), v) : t \in {<<" ","X"," ">>, <<"x","*">>}}
          \cup {MkRow(d, t, a, x, v) : t \in {Str(<<"*","G"," ">>), NA}})

InitLoad ==
    /\ \/ exists = {} /\ csv = NoFile
       \/ /\ exists \in {{2}, {1, 2}}
          /\ csv \in UNION {Tables(h, LoadRows, MaxRowsLoad) : h \in LoadHeaders}
    /\ InitRest

SpecLoad == InitLoad /\ [][Next]_vars

(* The ranking family: one product and up to MaxMarkets markets, market i  *)
(* with one row on day i; prices all distinct and rising, all distinct and *)
(* falling, or tied in pairs; optionally a second row for the first market *)
(* that moves its mean.                                                    *)
MaxMarkets == 11

RankPrice(i, pattern) ==
    CASE pattern = "rising" -> i
      [] pattern = "falling" -> 30 - i
      [] pattern = "tied" -> IF i % 4 = 2 THEN i - 1 ELSE i

RankTable(n, pattern, extra) ==
    LET row(i) == MkRow(DateTxt(i), Str(<<"g">>), Str(<<"p">>), Str(<<Lowers[i]>>),
                        NumTxt(RankPrice(i, pattern)))
        rows == [i \in 1..n |-> row(i)]
    IN  [header |-> CanonHeader,
         rows |-> IF extra /\ n > 0
                  THEN Append(rows, MkRow(DateTxt(1), Str(<<"g">>), Str(<<"p">>),
                                          Str(<<Lowers[1]>>), NumTxt(5)))
                  ELSE rows]

InitRank ==
    /\ \/ exists = {} /\ csv = NoFile
       \/ /\ exists = {2}
          /\ csv \in {RankTable(n, pattern, extra) :
                        n \in 0..MaxMarkets,
                        pattern \in {"rising", "falling", "tied"},
                        extra \in BOOLEAN}
    /\ InitRest

SpecRank == InitRank /\ [][Next]_vars

(***************************************************************************)
(* Claims                                                                  *)
(***************************************************************************)
\* the position, in the file, of the column whose normalized name is name
RawPos(name) ==
    CHOOSE i \in 1..Len(csv.header) : NormalizeColumnName(csv.header[i]) = name

Loaded == df # None

\* C1: after load_data every retained row has a parsed date and a numeric price,
\* and a raw row is retained if and only if its date parses and its price is a
\* number after coercion.
C1_RetainedIffDateParsesAndPriceNumeric ==
    Loaded =>
        /\ \A i \in 1..Len(df.rows) :
              /\ Get(df, df.rows[i], FECHA).k = "ts"
              /\ Get(df, df.rows[i], PRECIO).k = "num"
        /\ \A i \in 1..Len(csv.rows) :
              (\E j \in 1..Len(df.rows) : df.rows[j].idx = i - 1)
                  <=> /\ csv.rows[i][RawPos(FECHA)].k = "datetxt"
                      /\ csv.rows[i][RawPos(PRECIO)].k = "numtxt"

\* C3: a file that was found but has no row left after normalization is reported
\* with another outcome than the one of a run that finds no file (which is the
\* message "error_file_not_found").
C3_EmptyDatasetReportedDistinctly ==
    (pc = "stopped" /\ exists # {} /\ csv.rows # <<>> /\ Loaded /\ df.rows = <<>>)
        => signal # "error_file_not_found"

\* C5: a file whose headers normalize to the expected names loads, without
\* raising, to the table that the same rows load to under the canonical headers.
C5_IrregularHeadersLoadAsCanonical ==
    (pc # "start" /\ exists # {}
        /\ \A i \in 1..Len(csv.header) : NormalizeColumnName(csv.header[i]) = CanonHeader[i])
    => /\ Loaded
       /\ df = LoadData(exists, [csv EXCEPT !.header = CanonHeader]).df

\* C2: the indicators, the time series and the ranking are never computed from a
\* table without rows or from an empty view: such a run has stopped with its
\* message and has raised nothing.
C2_NoIndicatorsFromEmpty ==
    /\ (Loaded /\ df.rows = <<>> /\ pc # "loaded")
          => /\ pc = "stopped"
             /\ signal = "error_file_not_found"
             /\ kpi = None /\ pivot = None /\ rank = None
    /\ (df_producto # None /\ df_producto.rows = <<>> /\ pc # "filtered")
          => /\ pc = "stopped"
             /\ signal = "warning_no_data"
             /\ kpi = None /\ pivot = None /\ rank = None
    /\ (pc \in {"render", "done"} \/ kpi # None \/ pivot # None \/ rank # None)
          => /\ Loaded /\ df.rows # <<>>
             /\ df_producto # None /\ df_producto.rows # <<>>

\* C2's case: the range holds no row, the selectbox has no product to offer, and
\* the run stopped with the warning
C2_Witness ==
    /\ pc = "stopped"
    /\ signal = "warning_no_data"
    /\ producto_sel = None
    /\ df.rows # <<>>
    /\ df_producto.rows = <<>>

\* the stored form of a raw text: the raw text without its leading and trailing
\* whitespace, every letter in upper case, every other character unchanged
IsTrimmedUpperOf(stored, raw) ==
    /\ \A i \in 1..Len(stored) : stored[i] \notin Range(Lowers)
    /\ stored # <<>> => stored[1] \notin Whitespace /\ stored[Len(stored)] \notin Whitespace
    /\ \E a \in 1..(Len(raw) + 1) :
          /\ a + Len(stored) - 1 <= Len(raw)
          /\ \A i \in 1..Len(raw) :
                IF i < a \/ i >= a + Len(stored)
                THEN raw[i] \in Whitespace
                ELSE \/ stored[i - a + 1] = raw[i]
                     \/ \E n \in 1..26 : raw[i] = Lowers[n] /\ stored[i - a + 1] = Uppers[n]

TextColumns == {GRUPO, PRODUCTO, MERCADO}

\* C4 as stated: the stored group, product and market are the raw text trimmed,
\* in upper case and without any '*'.
C4_TrimmedUpperWithoutStar ==
    Loaded =>
        \A i \in 1..Len(df.rows) : \A col \in TextColumns :
            LET raw == csv.rows[df.rows[i].idx + 1][RawPos(col)]
                stored == Get(df, df.rows[i], col).v
            IN  raw.k = "str" => IsTrimmedUpperOf(stored, StrReplace(raw.v, "*", <<>>))

\* C4 as amended: the stored group, product and market are the raw text trimmed
\* and in upper case, with every '*' of the raw text kept.
C4_TrimmedUpperKeepsStar ==
    Loaded =>
        \A i \in 1..Len(df.rows) : \A col \in TextColumns :
            LET raw == csv.rows[df.rows[i].idx + 1][RawPos(col)]
                stored == Get(df, df.rows[i], col).v
            IN  raw.k = "str" => IsTrimmedUpperOf(stored, raw.v)

\* C4's case: a product written with a '*', a lower case letter and a trailing
\* blank was loaded
C4_Witness ==
    /\ Loaded
    /\ \E i \in 1..Len(df.rows) :
          /\ csv.rows[df.rows[i].idx + 1][RawPos(PRODUCTO)] = Str(<<"*", "a", " ">>)
          /\ Get(df, df.rows[i], PRODUCTO) = Str(<<"*", "A">>)

\* the sum of f over the indices in S
RECURSIVE TotalOf(_, _)
TotalOf(f, S) ==
    IF S = {} THEN 0
    ELSE LET x == CHOOSE x \in S : TRUE IN f[x] + TotalOf(f, S \ {x})

ViewFecha == [i \in 1..Len(df_producto.rows) |-> FechaOf(df_producto, df_producto.rows[i])]
ViewPrecio == [i \in 1..Len(df_producto.rows) |-> PrecioOf(df_producto, df_producto.rows[i])]
ViewMercado == [i \in 1..Len(df_producto.rows) |-> MercadoOf(df_producto, df_producto.rows[i])]

\* the rows of the view at its earliest and at its latest date
FirstRows == {i \in DOMAIN ViewFecha : \A j \in DOMAIN ViewFecha : ViewFecha[i] <= ViewFecha[j]}
LastRows == {i \in DOMAIN ViewFecha : \A j \in DOMAIN ViewFecha : ViewFecha[j] <= ViewFecha[i]}

\* value is the rational total / count
IsQuotient(value, total, count) == IsRat(value) /\ value.d # 0 /\ value.n * count = total * value.d

\* variacion_pct is (final / initial - 1) * 100 for the means of the first and of
\* the last date, a finite number
VariacionIsPctChange ==
    LET si == TotalOf(ViewPrecio, FirstRows)
        ci == Cardinality(FirstRows)
        sf == TotalOf(ViewPrecio, LastRows)
        cf == Cardinality(LastRows)
        v == kpi.variacion_pct
    IN  /\ IsRat(v) /\ v.d # 0
        /\ v.n * (cf * si) = 100 * (sf * ci - cf * si) * v.d

PricesAreMeans ==
    /\ IsQuotient(kpi.precio_inicial, TotalOf(ViewPrecio, FirstRows), Cardinality(FirstRows))
    /\ IsQuotient(kpi.precio_final, TotalOf(ViewPrecio, LastRows), Cardinality(LastRows))

\* C6 as stated: variacion_pct is null exactly when the mean price of the first
\* date is zero (or undefined), and is otherwise the percent change between the
\* means of the first and of the last date.
C6_NullIffInitialZero ==
    pc = "done" =>
        /\ PricesAreMeans
        /\ kpi.variacion_pct = None <=> TotalOf(ViewPrecio, FirstRows) = 0
        /\ kpi.variacion_pct # None => VariacionIsPctChange

\* C6 as amended: variacion_pct is null exactly when the mean price of the first
\* date is not strictly positive (zero, negative or undefined), and is otherwise
\* the percent change between the means of the first and of the last date.
C6_NullIffInitialNotPositive ==
    pc = "done" =>
        /\ PricesAreMeans
        /\ kpi.variacion_pct = None <=> TotalOf(ViewPrecio, FirstRows) <= 0
        /\ kpi.variacion_pct # None => VariacionIsPctChange

\* C6's case: two rows at the first date, another last date, and a variation that
\* is defined and not zero
C6_Witness ==
    /\ pc = "done"
    /\ Cardinality(FirstRows) >= 2
    /\ FirstRows # LastRows
    /\ \E i, j \in FirstRows : ViewPrecio[i] # ViewPrecio[j]
    /\ kpi.variacion_pct # None
    /\ kpi.variacion_pct.n # 0

\* C9: when every row of the view has the same date, precio_inicial equals
\* precio_final, and variacion_pct is 0 whenever it is not null.
C9_SingleDateNoVariation ==
    (pc = "done" /\ \A i, j \in DOMAIN ViewFecha : ViewFecha[i] = ViewFecha[j])
        => /\ IsRat(kpi.precio_inicial) /\ IsRat(kpi.precio_final)
           /\ kpi.precio_inicial.n * kpi.precio_final.d
                 = kpi.precio_final.n * kpi.precio_inicial.d
           /\ kpi.variacion_pct # None => kpi.variacion_pct.n = 0

\* C9's case: a view of one date with two different prices and a defined variation
C9_Witness ==
    /\ pc = "done"
    /\ \A i, j \in DOMAIN ViewFecha : ViewFecha[i] = ViewFecha[j]
    /\ \E i, j \in DOMAIN ViewPrecio : ViewPrecio[i] # ViewPrecio[j]
    /\ kpi.variacion_pct # None

\* the rows of df inside [start_date, end_date], bounds included, of the selected
\* product
InRangeOfProduct(row) ==
    /\ start_date <= Get(df, row, FECHA).v
    /\ Get(df, row, FECHA).v <= end_date
    /\ Get(df, row, PRODUCTO) = producto_sel

\* C7: with no market selected the view is exactly the rows of the selected
\* product inside the date range, bounds included, whatever their market; and so
\* is the view when every market available for that product and range is selected.
C7_NoMarketMeansEveryMarket ==
    LET expected == SelectSeq(df.rows, InRangeOfProduct)
        available == {Get(df, expected[i], MERCADO).v : i \in 1..Len(expected)}
    IN  (df_producto # None /\ (mercados_sel = {} \/ mercados_sel = available))
            => df_producto.rows = expected

\* C7's case: nothing selected, rows of two markets in the view, among them one
\* at each bound of the range, and a row of df left out
C7_Witness ==
    /\ df_producto # None
    /\ mercados_sel = {}
    /\ \E i, j \in DOMAIN ViewMercado : ViewMercado[i] # ViewMercado[j]
    /\ \E i, j \in DOMAIN ViewFecha :
          ViewFecha[i] = start_date /\ ViewFecha[j] = end_date /\ start_date < end_date
    /\ Len(df_producto.rows) < Len(df.rows)

ViewMarkets == {ViewMercado[i] : i \in DOMAIN ViewMercado}

RowsOf(market) == {i \in DOMAIN ViewMercado : ViewMercado[i] = market}

\* a's mean is below b's
Below(a, b) == a.key.n * b.key.d < b.key.n * a.key.d

\* the position of a market in a sequence of (market, mean) entries
PosIn(entries, market) == CHOOSE i \in 1..Len(entries) : entries[i].val = market

Min2(a, b) == IF a < b THEN a ELSE b

\* C8: the ranking holds every market of the view once, with its mean price, in
\* descending order of mean; the two slices have min(10, number of markets)
\* entries each, the expensive one being the head of the ranking and the cheap one
\* the tail of the ranking in ascending order of mean.
C8_RankingAndSlices ==
    pc = "done" =>
        LET r == rank.ranking_mercados
            n == Len(r)
            K == Min2(10, Cardinality(ViewMarkets))
        IN  /\ n = Cardinality(ViewMarkets)
            /\ {r[i].val : i \in 1..n} = ViewMarkets
            /\ \A i \in 1..n :
                  IsQuotient(r[i].key, TotalOf(ViewPrecio, RowsOf(r[i].val)),
                             Cardinality(RowsOf(r[i].val)))
            /\ \A i, j \in 1..n : i < j => ~Below(r[i], r[j])
            /\ rank.top_n = K
            /\ Len(rank.caros) = K
            /\ Len(rank.baratos) = K
            /\ \A i \in 1..K : rank.caros[i] = r[i]
            /\ {rank.baratos[i] : i \in 1..K} = {r[i] : i \in (n - K + 1)..n}
            /\ \A i, j \in 1..K : i < j => ~Below(rank.baratos[j], rank.baratos[i])

\* C8's case: more than ten markets, one of them with two rows, so that the two
\* slices differ and leave a market out
C8_Witness ==
    /\ pc = "done"
    /\ Len(rank.ranking_mercados) > 10
    /\ Len(rank.caros) = 10
    /\ \E m \in ViewMarkets : Cardinality(RowsOf(m)) = 2
    /\ rank.caros[1] \notin {rank.baratos[i] : i \in 1..Len(rank.baratos)}

\* C10 as stated: two markets of equal mean price appear in the ranking in the
\* order the group-by-market step produced them (the descending sort is stable).
C10_TiesKeepGroupingOrder ==
    pc = "done" =>
        LET r == rank.ranking_mercados
        IN  \A i, j \in 1..Len(r) :
                (i < j /\ ~Below(r[i], r[j]) /\ ~Below(r[j], r[i]))
                    => PosIn(rank.grouped, r[i].val) < PosIn(rank.grouped, r[j].val)

\* C10 as amended: the ranking is a reordering of the group-by-market output in
\* which a market of strictly larger mean price comes before one of smaller mean;
\* the order of two markets of equal mean is not fixed.
C10_LargerMeanFirst ==
    pc = "done" =>
        LET r == rank.ranking_mercados
            g == rank.grouped
        IN  /\ Len(r) = Len(g)
            /\ {r[i] : i \in 1..Len(r)} = {g[i] : i \in 1..Len(g)}
            /\ \A i, j \in 1..Len(g) :
                  Below(g[i], g[j]) => PosIn(r, g[j].val) < PosIn(r, g[i].val)

\* C10's case: two markets of equal mean ranked against the grouping order
C10_Witness ==
    /\ pc = "done"
    /\ \E i, j \in 1..Len(rank.ranking_mercados) :
          LET r == rank.ranking_mercados
          IN  /\ i < j
              /\ ~Below(r[i], r[j]) /\ ~Below(r[j], r[i])
              /\ PosIn(rank.grouped, r[j].val) < PosIn(rank.grouped, r[i].val)

=============================================================================
